---- MODULE Spec2Model ----
(***************************************************************************)
(* A model of src/lib/main.py: a FastAPI service that keeps one snapshot   *)
(* of person records in the process-wide dict `cache` and serves four      *)
(* aggregations over it, plus /evaluation, which calls the four query      *)
(* endpoints in process and reports their status.                          *)
(*                                                                         *)
(* Conventions.                                                            *)
(*  - A Python list is a sequence; a dict (Counter, defaultdict) is a      *)
(*    sequence of entries in insertion order, which is the order Python    *)
(*    dicts iterate in.                                                    *)
(*  - processing_time_ms / time_ms are wall-clock measurements; they are   *)
(*    left out of the responses (no claim reads them).                     *)
(*  - percentagem_ativos is a decimal with two places; it is held in       *)
(*    hundredths (3333 is 33.33).                                          *)
(*  - Request validation (the pydantic models of lines 16-37, Query(ge=0)  *)
(*    of line 136) is done by FastAPI before a handler runs; a failure is  *)
(*    FastAPI's 422 response and the handler is never entered.             *)
(***************************************************************************)
EXTENDS Integers, Sequences, FiniteSets, TLC

VARIABLES
    cache,      \* the module-level dict `cache` (line 13)
    req,        \* the request being answered (history: what the client sent)
    resp,       \* the response to it
    lastBody,   \* history: the payload of the last successful POST /users
    ev,         \* GET /evaluation in progress: the locals of evaluation()
    th,         \* worker threads of the concurrent model: each one's locals
    stored      \* history of the concurrent model: the payloads stored so far

vars == <<cache, req, resp, lastBody, ev, th, stored>>

----------------------------------------------------------------------------
(* Bounds of the model.                                                    *)

MaxPeople == 2        \* records per POST body in Spec
MaxTopPeople == 7     \* records per snapshot in SpecTop
MaxTopLow == 1        \* records with score 800 per snapshot in SpecTop
MaxTeamPeople == 3    \* records per snapshot in SpecTeam
MaxDayPeople == 2     \* records per snapshot in SpecDays
MaxLogs == 3          \* log entries per snapshot in SpecDays
MaxMin == 3           \* largest ?min= tried

----------------------------------------------------------------------------
(* Program constants.                                                      *)

SuperuserScore == 900     \* person["score"] >= 900
TopScore == 800           \* usuario["score"] > 800
TopN == 5                 \* most_common(5)
HTTP_OK == 200
HTTP_NOT_FOUND == 404
HTTP_UNPROCESSABLE == 422 \* FastAPI's answer to a request that fails validation

----------------------------------------------------------------------------
(* Data model (lines 16-37).                                               *)

Project(nome, concluido) == [nome |-> nome, concluido |-> concluido]

Team(nome, lider, projetos) == [nome |-> nome, lider |-> lider, projetos |-> projetos]

LogEntry(data, acao) == [data |-> data, acao |-> acao]

Person(score, ativo, pais, equipe, logs) ==
    [id |-> "uuid4", nome |-> "pessoa", idade |-> 30, score |-> score,
     ativo |-> ativo, pais |-> pais, equipe |-> equipe, logs |-> logs]

PersonFields == {"id", "nome", "idade", "score", "ativo", "pais", "equipe", "logs"}

\* A JSON object of the request body passes validation as a Person when it
\* has every field of the model (all are required: none has a default).
IsPerson(item) == PersonFields \subseteq DOMAIN item

\* person.model_dump(): the dict of the model's fields.
model_dump(person) == [k \in PersonFields |-> person[k]]

----------------------------------------------------------------------------
(* Generic helpers.                                                        *)

SeqsUpTo(S, n) == UNION {[1..k -> S] : k \in 0..n}

Take(s, n) == SubSeq(s, 1, IF Len(s) < n THEN Len(s) ELSE n)

RECURSIVE SumSeq(_)
SumSeq(s) == IF s = <<>> THEN 0 ELSE Head(s) + SumSeq(Tail(s))

\* [f(x) for x in s]
MapSeq(f(_), s) == [i \in 1..Len(s) |-> f(s[i])]

\* The position of the first x in s, 0 if there is none.
IndexOf(s, x) ==
    IF \E i \in 1..Len(s) : s[i] = x
    THEN CHOOSE i \in 1..Len(s) : s[i] = x /\ \A j \in 1..(i - 1) : s[j] # x
    ELSE 0

\* d[k] += 1 for each k of s in turn, on a dict that starts empty and gives a
\* missing key 0: entries <<key, count>> in the order the keys first occur.
RECURSIVE CountInOrder(_)
CountInOrder(s) ==
    IF s = <<>> THEN <<>>
    ELSE LET d == CountInOrder(SubSeq(s, 1, Len(s) - 1))
             k == s[Len(s)]
             i == IndexOf(MapSeq(LAMBDA e : e[1], d), k)
         IN  IF i = 0 THEN Append(d, <<k, 1>>)
             ELSE [d EXCEPT ![i] = <<k, d[i][2] + 1>>]

----------------------------------------------------------------------------
(* GET /users (lines 44-63).                                               *)

\* A slip in the comparison: a score of exactly 900 is left out.
superusers_strict(people) ==
    SelectSeq(people, LAMBDA person : person.score > SuperuserScore /\ person.ativo)

superusers(people) ==
    SelectSeq(people, LAMBDA person : person.score >= SuperuserScore /\ person.ativo)

----------------------------------------------------------------------------
(* GET /top-countries (lines 65-88).                                       *)

\* [usuario["pais"] for usuario in cache["people"] if usuario["score"] > 800]
superusuarios(people) ==
    MapSeq(LAMBDA usuario : usuario.pais,
           SelectSeq(people, LAMBDA usuario : usuario.score > TopScore))

\* collections.Counter(iterable)
Counter(s) == CountInOrder(s)

\* A sort that is not stable: e goes before the entries of its own count, as
\* in reversed(sorted(items, key=...)).
InsertByCountBeforeEqual(sorted, e) ==
    LET k == Cardinality({i \in 1..Len(sorted) : sorted[i][2] > e[2]})
    IN  SubSeq(sorted, 1, k) \o <<e>> \o SubSeq(sorted, k + 1, Len(sorted))

\* One step of a stable descending sort on the count: e goes after every
\* entry whose count is at least its own.
InsertByCount(sorted, e) ==
    LET k == Cardinality({i \in 1..Len(sorted) : sorted[i][2] >= e[2]})
    IN  SubSeq(sorted, 1, k) \o <<e>> \o SubSeq(sorted, k + 1, Len(sorted))

\* sorted(items, key=itemgetter(1), reverse=True): stable, so entries of equal
\* count keep their insertion order.
RECURSIVE SortedByCount(_)
SortedByCount(items) ==
    IF items = <<>> THEN <<>>
    ELSE InsertByCount(SortedByCount(SubSeq(items, 1, Len(items) - 1)), items[Len(items)])

\* Counter.most_common(n) is heapq.nlargest(n, items, key=itemgetter(1)), which
\* the library defines as sorted(items, key=..., reverse=True)[:n].
most_common(counter, n) == Take(SortedByCount(counter), n)

top_5_paises(people) == most_common(Counter(superusuarios(people)), TopN)

----------------------------------------------------------------------------
(* GET /team-insights (lines 90-133).                                      *)

\* The defaultdict's value for a team not seen yet (line 97).
NewTeamInfo == [total_membros |-> 0, lideres |-> 0, projetos_concluidos |-> 0, ativos |-> 0]

\* One turn of the loop of lines 99-113 on the accumulator `info`.
CountMember(info, usuario) ==
    [total_membros |-> info.total_membros + 1,
     lideres |-> info.lideres + (IF usuario.equipe.lider THEN 1 ELSE 0),
     projetos_concluidos |-> info.projetos_concluidos
         + Len(SelectSeq(usuario.equipe.projetos, LAMBDA p : p.concluido)),
     ativos |-> info.ativos + (IF usuario.ativo THEN 1 ELSE 0)]

\* team_data after the loop: entries <<team name, info>> in insertion order.
RECURSIVE team_data(_)
team_data(people) ==
    IF people = <<>> THEN <<>>
    ELSE LET d == team_data(SubSeq(people, 1, Len(people) - 1))
             usuario == people[Len(people)]
             i == IndexOf(MapSeq(LAMBDA e : e[1], d), usuario.equipe.nome)
         IN  IF i = 0
             THEN Append(d, <<usuario.equipe.nome, CountMember(NewTeamInfo, usuario)>>)
             ELSE [d EXCEPT ![i] = <<d[i][1], CountMember(d[i][2], usuario)>>]

\* A percentage cut to two decimals instead of rounded.
TruncPercent(num, den) == (num * 10000) \div den

\* round(num / den * 100, 2) in hundredths: the nearest hundredth, a tie going
\* to the even one (Python rounds the float half to even).
RoundPercent(num, den) ==
    LET n == num * 10000
        q == n \div den
        r == n % den
    IN  IF 2 * r < den THEN q
        ELSE IF 2 * r > den THEN q + 1
        ELSE IF q % 2 = 0 THEN q ELSE q + 1

porcentagem_ativos(data) ==
    IF data.total_membros > 0 THEN RoundPercent(data.ativos, data.total_membros) ELSE 0

insights(people) ==
    MapSeq(LAMBDA e : [team_name |-> e[1],
                       total_membros |-> e[2].total_membros,
                       lideres |-> e[2].lideres,
                       projetos_concluidos |-> e[2].projetos_concluidos,
                       percentagem_ativos |-> porcentagem_ativos(e[2])],
           team_data(people))

----------------------------------------------------------------------------
(* GET /active-users-per-day (lines 135-162).                              *)

\* The query parameter `min`: absent (None) or an integer.
NoMin == [given |-> FALSE]
Min(m) == [given |-> TRUE, val |-> m]

\* Every log of every record, in the order the two loops visit them.
RECURSIVE AllLogs(_)
AllLogs(people) ==
    IF people = <<>> THEN <<>> ELSE Head(people).logs \o AllLogs(Tail(people))

\* login_count_by_day after the loops of lines 144-147.
login_count_by_day(people) ==
    CountInOrder(MapSeq(LAMBDA log : log.data,
                        SelectSeq(AllLogs(people), LAMBDA log : log.acao = "login")))

\* A filter that keeps only the days with more than min logins.
FilterAboveMin(counts, min) ==
    IF min.given THEN SelectSeq(counts, LAMBDA e : e[2] > min.val) ELSE counts

\* Lines 149-150: the dict comprehension keeps the order of the entries.
FilterByMin(counts, min) ==
    IF min.given THEN SelectSeq(counts, LAMBDA e : e[2] >= min.val) ELSE counts

active_users_per_day(people, min) ==
    MapSeq(LAMBDA e : [data |-> e[1], logins |-> e[2]],
           FilterByMin(login_count_by_day(people), min))

----------------------------------------------------------------------------
(* Responses.                                                              *)

\* HTTPException(status_code=404, detail="Nenhuma pessoa em cache")
NotFound(endpoint) ==
    [endpoint |-> endpoint, status |-> HTTP_NOT_FOUND, detail |-> "Nenhuma pessoa em cache"]

\* FastAPI's response to a body or query parameter that fails validation.
Unprocessable(endpoint) ==
    [endpoint |-> endpoint, status |-> HTTP_UNPROCESSABLE, detail |-> "validation error"]

\* {"processing_time_ms": ..., "total": len(data), "data": data}
Report(endpoint, data) ==
    [endpoint |-> endpoint, status |-> HTTP_OK, total |-> Len(data), data |-> data]

\* {"message": f"{len(people)} pessoas armazenadas em cache"}
Stored(people) ==
    [endpoint |-> "POST /users", status |-> HTTP_OK,
     message |-> <<Len(people), "pessoas armazenadas em cache">>]

----------------------------------------------------------------------------
(* The handlers, as the response each gives on a cache.                    *)

\* A cache that is born with an empty list instead of no "people" key.
EmptyCacheWithList == [people |-> <<>>]

EmptyCache == <<>>

HasPeople(c) == "people" \in DOMAIN c

\* A store that extends the list already there instead of replacing it.
StoreSnapshotExtend(c, people) ==
    [k \in DOMAIN c \cup {"people"} |->
        IF k = "people"
        THEN (IF "people" \in DOMAIN c THEN c["people"] ELSE <<>>) \o MapSeq(model_dump, people)
        ELSE c[k]]

\* cache["people"] = [person.model_dump() for person in people]
StoreSnapshot(c, people) ==
    [k \in DOMAIN c \cup {"people"} |->
        IF k = "people" THEN MapSeq(model_dump, people) ELSE c[k]]

get_users(c) ==
    IF ~HasPeople(c) THEN NotFound("GET /users")
    ELSE Report("GET /users", superusers(c["people"]))

get_top_countries(c) ==
    IF ~HasPeople(c) THEN NotFound("GET /top-countries")
    ELSE Report("GET /top-countries", top_5_paises(c["people"]))

get_team_insights(c) ==
    IF ~HasPeople(c) THEN NotFound("GET /team-insights")
    ELSE Report("GET /team-insights", insights(c["people"]))

\* The parameter declared without ge=0: a negative min reaches the handler.
get_active_users_per_day_unvalidated(c, min) ==
    IF ~("people" \in DOMAIN c) THEN NotFound("GET /active-users-per-day")
    ELSE Report("GET /active-users-per-day", active_users_per_day(c["people"], min))

\* Query(None, ge=0) is checked before the handler is entered.
get_active_users_per_day(c, min) ==
    IF min.given /\ ~(min.val >= 0) THEN Unprocessable("GET /active-users-per-day")
    ELSE IF ~HasPeople(c) THEN NotFound("GET /active-users-per-day")
    ELSE Report("GET /active-users-per-day", active_users_per_day(c["people"], min))

----------------------------------------------------------------------------
(* The requests a client sends in Spec.                                    *)

StoreScores == {SuperuserScore - 1, SuperuserScore}

StorePersons ==
    {Person(s, a, "BR", Team("alpha", TRUE, <<Project("p1", TRUE)>>), <<LogEntry(1, "login")>>) :
        s \in StoreScores, a \in BOOLEAN}

\* A JSON object with no "score": it fails validation.
Malformed ==
    LET p == Person(SuperuserScore, TRUE, "BR", Team("alpha", TRUE, <<>>), <<>>)
    IN  [k \in PersonFields \ {"score"} |-> p[k]]

Bodies == SeqsUpTo(StorePersons \cup {Malformed}, MaxPeople)

Mins == {NoMin} \cup {Min(m) : m \in (-2)..MaxMin}

NoRequest == [endpoint |-> "none"]
NoResponse == [endpoint |-> "none"]
NoBody == [present |-> FALSE]
EvIdle == [pc |-> "idle"]

\* The history of successful ingestions: the payload, and whether the one
\* before it was the same payload (times = 2) or not (times = 1).
Ingested(last, people) ==
    [present |-> TRUE, people |-> people,
     times |-> IF last.present /\ last.people = people THEN 2 ELSE 1]

----------------------------------------------------------------------------
(* Actions: one per route, each a whole request.                           *)

\* An ingestion that validates record by record while it stores: the records
\* before the first invalid one are stored, and then the call fails.
PostUsersPartial(body) ==
    /\ req' = [endpoint |-> "POST /users", body |-> body]
    /\ IF \A i \in 1..Len(body) : IsPerson(body[i])
       THEN /\ cache' = [people |-> MapSeq(model_dump, body)]
            /\ resp' = Stored(body)
            /\ lastBody' = Ingested(lastBody, body)
       ELSE LET bad == CHOOSE i \in 1..Len(body) :
                           ~IsPerson(body[i]) /\ \A j \in 1..(i - 1) : IsPerson(body[j])
            IN  /\ cache' = [people |-> MapSeq(model_dump, SubSeq(body, 1, bad - 1))]
                /\ resp' = Unprocessable("POST /users")
                /\ UNCHANGED lastBody
    /\ UNCHANGED <<ev, th, stored>>

\* POST /users (lines 39-42), with FastAPI's validation of List[Person].
PostUsers(body) ==
    /\ req' = [endpoint |-> "POST /users", body |-> body]
    /\ IF \A i \in 1..Len(body) : IsPerson(body[i])
       THEN /\ cache' = StoreSnapshot(cache, body)
            /\ resp' = Stored(body)
            /\ lastBody' = Ingested(lastBody, body)
       ELSE /\ resp' = Unprocessable("POST /users")
            /\ UNCHANGED <<cache, lastBody>>
    /\ UNCHANGED <<ev, th, stored>>

GetUsers ==
    /\ req' = [endpoint |-> "GET /users"]
    /\ resp' = get_users(cache)
    /\ UNCHANGED <<cache, lastBody, ev, th, stored>>

GetTopCountries ==
    /\ req' = [endpoint |-> "GET /top-countries"]
    /\ resp' = get_top_countries(cache)
    /\ UNCHANGED <<cache, lastBody, ev, th, stored>>

GetTeamInsights ==
    /\ req' = [endpoint |-> "GET /team-insights"]
    /\ resp' = get_team_insights(cache)
    /\ UNCHANGED <<cache, lastBody, ev, th, stored>>

GetActiveUsersPerDay(min) ==
    /\ req' = [endpoint |-> "GET /active-users-per-day", min |-> min]
    /\ resp' = get_active_users_per_day(cache, min)
    /\ UNCHANGED <<cache, lastBody, ev, th, stored>>

Init ==
    /\ cache = EmptyCache
    /\ req = NoRequest
    /\ resp = NoResponse
    /\ lastBody = NoBody
    /\ ev = EvIdle
    /\ th = <<>>
    /\ stored = {}

Next ==
    \/ \E body \in Bodies : PostUsers(body)
    \/ GetUsers
    \/ GetTopCountries
    \/ GetTeamInsights
    \/ \E min \in Mins : GetActiveUsersPerDay(min)

Spec == Init /\ [][Next]_vars

----------------------------------------------------------------------------
(* Claims checked under Spec.                                              *)

QueryEndpoints ==
    {"GET /users", "GET /top-countries", "GET /team-insights", "GET /active-users-per-day"}

\* The positions of P whose record has score >= 900 and ativo = true.
Qualifying(P) == {i \in 1..Len(P) : P[i].score >= 900 /\ P[i].ativo}

\* The k-th smallest element of a set of numbers.
Nth(S, k) == CHOOSE i \in S : Cardinality({j \in S : j < i}) = k - 1

C3_QueriesBeforeIngestionAreNotFound ==
    (/\ ~lastBody.present
     /\ req.endpoint \in QueryEndpoints
     /\ (req.endpoint = "GET /active-users-per-day" =>
            (~req.min.given \/ req.min.val >= 0))) =>
        /\ resp.status = 404
        /\ "data" \notin DOMAIN resp
        /\ "total" \notin DOMAIN resp

\* C3 witness: GET /active-users-per-day?min=0 before any ingestion.
C3_Witness ==
    /\ ~lastBody.present
    /\ req.endpoint = "GET /active-users-per-day"
    /\ req.min = Min(0)
    /\ resp.status = 404

\* C4: a POST /users whose payload holds a record that fails validation fails
\* and leaves the cache as it was; one whose payload is valid replaces the
\* whole snapshot with the payload and reports its record count.
C4_IngestionIsAllOrNothing ==
    [][req'.endpoint = "POST /users" =>
          LET body == req'.body
          IN  IF \E i \in 1..Len(body) : ~IsPerson(body[i])
              THEN /\ resp'.status # 200
                   /\ cache' = cache
              ELSE /\ resp'.status = 200
                   /\ DOMAIN cache' = {"people"}
                   /\ cache'["people"] = body
                   /\ resp'.message[1] = Len(body)]_vars

\* C4 witness: a payload whose first record is valid and second is not was
\* refused while a snapshot of two records was held.
C4_Witness ==
    /\ req.endpoint = "POST /users"
    /\ Len(req.body) = 2
    /\ IsPerson(req.body[1])
    /\ ~IsPerson(req.body[2])
    /\ resp.status = 422
    /\ lastBody.present
    /\ Len(lastBody.people) = 2
    /\ cache = [people |-> lastBody.people]

NegativeMinRequest(r) ==
    r.endpoint = "GET /active-users-per-day" /\ r.min.given /\ r.min.val < 0

C10_ReingestionIsIdempotent ==
    [][(/\ req'.endpoint = "POST /users"
        /\ resp'.status = 200
        /\ lastBody.present
        /\ lastBody.people = req'.body) =>
          /\ get_users(cache') = get_users(cache)
          /\ get_top_countries(cache') = get_top_countries(cache)
          /\ get_team_insights(cache') = get_team_insights(cache)
          /\ \A min \in Mins :
                get_active_users_per_day(cache', min) = get_active_users_per_day(cache, min)]_vars

\* C10 witness: a payload with a superuser was ingested twice in a row and
\* GET /users was asked after the second time.
C10_Witness ==
    /\ lastBody.present
    /\ lastBody.times = 2
    /\ req.endpoint = "GET /users"
    /\ resp.status = 200
    /\ resp.total = 1

----------------------------------------------------------------------------
(* SpecTop: GET /top-countries on every snapshot of up to MaxTopPeople     *)
(* records that differ in country and in score (801, or 800 for at most    *)
(* MaxTopLow of them).  The code                                           *)
(* only compares country names for equality, so the snapshots are          *)
(* enumerated up to a renaming of the countries: the first record's        *)
(* country is Countries[1], and a country not named before is the next     *)
(* unused one of Countries.                                                *)

Countries == <<"BR", "US", "CA", "MX", "AR", "PT", "FR", "DE", "JP">>

TopPerson(c, s) == Person(s, TRUE, Countries[c], Team("alpha", FALSE, <<>>), <<>>)

\* The sequences of n country numbers in which a number not used before is
\* the next unused one.
RECURSIVE CountryRuns(_)
CountryRuns(n) ==
    IF n = 0 THEN {<<>>}
    ELSE UNION {{Append(run, c) : c \in 1..(Cardinality({run[i] : i \in 1..Len(run)}) + 1)} :
                run \in CountryRuns(n - 1)}

\* The snapshot with the countries of `run`, the records at the positions
\* `low` having score 800 and the others 801.
TopSnapshot(run, low) ==
    [i \in 1..Len(run) |-> TopPerson(run[i], IF i \in low THEN TopScore ELSE TopScore + 1)]

\* A state in which a snapshot is held and no request was made yet (the
\* history of ingestions is not kept here: no claim of these models reads it).
Holding(people) ==
    /\ cache = [people |-> people]
    /\ lastBody = NoBody
    /\ req = NoRequest
    /\ resp = NoResponse
    /\ ev = EvIdle
    /\ th = <<>>
    /\ stored = {}

InitTop ==
    \E n \in 0..MaxTopPeople :
        \E run \in CountryRuns(n) :
            \E low \in {L \in SUBSET (1..n) : Cardinality(L) <= MaxTopLow} :
                Holding(TopSnapshot(run, low))

NextTop == GetTopCountries

SpecTop == InitTop /\ [][NextTop]_vars

\* The positions of P whose record has score > 800.
Over800(P) == {i \in 1..Len(P) : P[i].score > 800}

\* The number of records of P with score > 800 in country c.
CountIn(P, c) == Cardinality({i \in Over800(P) : P[i].pais = c})

\* The position of the first record of P with score > 800 in country c.
FirstIn(P, c) == CHOOSE i \in Over800(P) : P[i].pais = c /\ \A j \in Over800(P) : P[j].pais = c => i <= j

\* C2: GET /top-countries returns at most 5 pairs; each count is the number
\* of records with score > 800 in that country; the pairs are in descending
\* order of count, pairs of equal count in the order in which the countries
\* are first met among the counted records of the snapshot; no country left
\* out has a larger count than a returned one; the counts sum to at most the
\* number of records with score > 800.
C2_TopCountries ==
    (req.endpoint = "GET /top-countries" /\ HasPeople(cache)) =>
        LET P == cache["people"]
            data == resp.data
            returned == {data[k][1] : k \in 1..Len(data)}
        IN  /\ resp.status = 200
            /\ resp.total = Len(data)
            /\ Len(data) <= 5
            /\ \A k \in 1..Len(data) : data[k][2] = CountIn(P, data[k][1]) /\ data[k][2] >= 1
            /\ \A k \in 1..(Len(data) - 1) :
                  \/ data[k][2] > data[k + 1][2]
                  \/ /\ data[k][2] = data[k + 1][2]
                     /\ FirstIn(P, data[k][1]) < FirstIn(P, data[k + 1][1])
            /\ \A i \in Over800(P) :
                  P[i].pais \notin returned =>
                      \A k \in 1..Len(data) : CountIn(P, P[i].pais) <= data[k][2]
            /\ SumSeq(MapSeq(LAMBDA e : e[2], data)) <= Cardinality(Over800(P))

\* C2 witness: six countries have records over 800, so one is cut off, and
\* a country met later than a tied one is ahead of it by its larger count.
C2_Witness ==
    /\ req.endpoint = "GET /top-countries"
    /\ resp.status = 200
    /\ Len(resp.data) = 5
    /\ Cardinality({cache["people"][i].pais : i \in Over800(cache["people"])}) = 6
    /\ resp.data[1][2] = 2
    /\ FirstIn(cache["people"], resp.data[1][1]) > FirstIn(cache["people"], resp.data[2][1])

----------------------------------------------------------------------------
(* SpecTeam: GET /team-insights on every snapshot of up to MaxTeamPeople   *)
(* records that differ in team name, lider, projects and ativo.            *)

TeamNames == {"alpha", "beta"}

\* No completed project, or two completed ones and one that is not.
TeamProjects ==
    {<<Project("p0", FALSE)>>,
     <<Project("p1", TRUE), Project("p2", FALSE), Project("p3", TRUE)>>}

TeamPersons ==
    {Person(SuperuserScore, a, "BR", Team(n, l, ps), <<>>) :
        a \in BOOLEAN, n \in TeamNames, l \in BOOLEAN, ps \in TeamProjects}

InitTeam ==
    \E n \in 0..MaxTeamPeople : \E people \in [1..n -> TeamPersons] : Holding(people)

NextTeam == GetTeamInsights

SpecTeam == InitTeam /\ [][NextTeam]_vars

\* The positions of P whose record is in the team named t.
Members(P, t) == {i \in 1..Len(P) : P[i].equipe.nome = t}

\* The completed projects of the members of t: <<member, project position>>.
Completed(P, t) ==
    {ij \in Members(P, t) \X (1..3) :
        ij[2] <= Len(P[ij[1]].equipe.projetos) /\ P[ij[1]].equipe.projetos[ij[2]].concluido}

Active(P, t) == {i \in Members(P, t) : P[i].ativo}

\* Everything C9 says of the entries but the value of the percentage.
TeamEntriesAreRight(P, data) ==
    /\ Len(data) = Cardinality({P[i].equipe.nome : i \in 1..Len(P)})
    /\ \A k \in 1..Len(data) :
          LET t == data[k].team_name
          IN  /\ Members(P, t) # {}
              /\ data[k].total_membros = Cardinality(Members(P, t))
              /\ data[k].lideres = Cardinality({i \in Members(P, t) : P[i].equipe.lider})
              /\ data[k].projetos_concluidos = Cardinality(Completed(P, t))
              /\ data[k].percentagem_ativos >= 0
              /\ data[k].percentagem_ativos <= 10000
              /\ (data[k].total_membros = 0 => data[k].percentagem_ativos = 0)
    /\ \A k \in 1..(Len(data) - 1) :
          \A i \in Members(P, data[k + 1].team_name) :
              \E j \in Members(P, data[k].team_name) : j < i

\* C9 as stated: one entry per team name in first-met order with the member,
\* leader and completed-project counts, and percentagem_ativos equal to
\* (active members / total_membros) x 100, in [0, 100], 0 when there is no member.
C9_TeamInsightsExactPercentage ==
    (req.endpoint = "GET /team-insights" /\ HasPeople(cache)) =>
        LET P == cache["people"]
            data == resp.data
        IN  /\ resp.status = 200
            /\ TeamEntriesAreRight(P, data)
            /\ \A k \in 1..Len(data) :
                  data[k].percentagem_ativos * data[k].total_membros
                      = Cardinality(Active(P, data[k].team_name)) * 10000

\* C9 amended: as stated, but percentagem_ativos is (active members /
\* total_membros) x 100 rounded to two decimals (to the nearest hundredth, a
\* tie going to the even one).
C9_TeamInsightsRoundedPercentage ==
    (req.endpoint = "GET /team-insights" /\ HasPeople(cache)) =>
        LET P == cache["people"]
            data == resp.data
        IN  /\ resp.status = 200
            /\ resp.total = Len(data)
            /\ TeamEntriesAreRight(P, data)
            /\ \A k \in 1..Len(data) :
                  LET exact == Cardinality(Active(P, data[k].team_name)) * 10000
                      got == data[k].percentagem_ativos * data[k].total_membros
                      off == IF got >= exact THEN got - exact ELSE exact - got
                  IN  \/ 2 * off < data[k].total_membros
                      \/ /\ 2 * off = data[k].total_membros
                         /\ data[k].percentagem_ativos % 2 = 0

\* C9 witness: one team of three members of whom two are active (66.67),
\* with two leaders and four completed projects.
C9_Witness ==
    /\ req.endpoint = "GET /team-insights"
    /\ resp.status = 200
    /\ Len(resp.data) = 1
    /\ resp.data[1].team_name = "beta"
    /\ resp.data[1].total_membros = 3
    /\ resp.data[1].lideres = 2
    /\ resp.data[1].projetos_concluidos = 4
    /\ resp.data[1].percentagem_ativos = 6667

----------------------------------------------------------------------------
(* SpecDays: GET /active-users-per-day, with every min, on every snapshot  *)
(* of up to MaxDayPeople records that hold up to MaxLogs log entries       *)
(* between them.                                                           *)

DayEntries == {LogEntry(d, a) : d \in {1, 2}, a \in {"login", "logout"}}

DayPerson(logs) == Person(SuperuserScore, TRUE, "BR", Team("alpha", FALSE, <<>>), logs)

\* The snapshot of n records that share the entries of `logs`: record i
\* holds the entries after cut[i - 1] up to cut[i], the last one the rest.
DaySnapshot(logs, n, cut) ==
    [i \in 1..n |->
        DayPerson(SubSeq(logs,
                         (IF i = 1 THEN 0 ELSE cut[i - 1]) + 1,
                         IF i = n THEN Len(logs) ELSE cut[i]))]

InitDays ==
    \E k \in 0..MaxLogs : \E logs \in [1..k -> DayEntries] :
        \E n \in 1..MaxDayPeople :
            \E cut \in {c \in [1..(n - 1) -> 0..k] : \A i \in 1..(n - 2) : c[i] <= c[i + 1]} :
                Holding(DaySnapshot(logs, n, cut))

NextDays == \E min \in Mins : GetActiveUsersPerDay(min)

SpecDays == InitDays /\ [][NextDays]_vars

\* The login entries of P on date d: <<record position, log position>>.
LoginsOn(P, d) ==
    {ij \in (1..Len(P)) \X (1..MaxLogs + 1) :
        /\ ij[2] <= Len(P[ij[1]].logs)
        /\ P[ij[1]].logs[ij[2]].acao = "login"
        /\ P[ij[1]].logs[ij[2]].data = d}

\* Entry a is scanned before entry b.
Before(a, b) == a[1] < b[1] \/ (a[1] = b[1] /\ a[2] < b[2])

\* The dates of the log entries of P.
LogDates(P) == UNION {{P[i].logs[j].data : j \in 1..Len(P[i].logs)} : i \in 1..Len(P)}

\* data lists exactly the dates with a login and at least m of them, each
\* with its number of logins, in the order in which the dates are first met.
DaysAreRight(P, data, m) ==
    /\ {data[k].data : k \in 1..Len(data)} =
          {d \in LogDates(P) : LoginsOn(P, d) # {} /\ Cardinality(LoginsOn(P, d)) >= m}
    /\ Len(data) = Cardinality({data[k].data : k \in 1..Len(data)})
    /\ \A k \in 1..Len(data) : data[k].logins = Cardinality(LoginsOn(P, data[k].data))
    /\ \A k \in 1..(Len(data) - 1) :
          \E a \in LoginsOn(P, data[k].data) :
              \A b \in LoginsOn(P, data[k + 1].data) : Before(a, b)

ActiveRequest(r) ==
    r.endpoint = "GET /active-users-per-day" /\ (r.min.given => r.min.val >= 0)

\* C8: on a fixed snapshot, without min the endpoint returns exactly the days
\* with at least one login, each with its count, in first-met order; with
\* min = m exactly those of them with count >= m; and when a request with
\* m2 >= m1 follows one with m1 (or with no min), its days are among those of
\* the first and no more.
C8_ActiveUsersPerDay ==
    /\ [](ActiveRequest(req) =>
            /\ resp.status = 200
            /\ resp.total = Len(resp.data)
            /\ DaysAreRight(cache["people"], resp.data, IF req.min.given THEN req.min.val ELSE 0))
    /\ [][(/\ ActiveRequest(req)
           /\ ActiveRequest(req')
           /\ req'.min.given
           /\ (req.min.given => req.min.val <= req'.min.val)
           /\ cache' = cache) =>
             /\ {resp'.data[k] : k \in 1..Len(resp'.data)} \subseteq {resp.data[k] : k \in 1..Len(resp.data)}
             /\ resp'.total <= resp.total]_vars

\* C8 witness: min = 2 keeps the day with two logins and drops the day, met
\* first, with one.
C8_Witness ==
    /\ ActiveRequest(req)
    /\ req.min = Min(2)
    /\ resp.total = 1
    /\ resp.data[1].logins = 2
    /\ Cardinality({d \in LogDates(cache["people"]) : LoginsOn(cache["people"], d) # {}}) = 2
    /\ Len(cache["people"]) = 2
    /\ Len(cache["people"][1].logs) = 1

----------------------------------------------------------------------------
(* GET /evaluation (lines 164-226).  evaluation() is a coroutine that      *)
(* calls the four query endpoints one after the other through a            *)
(* TestClient; POST /users handlers run in worker threads, so an           *)
(* ingestion can come between two of its calls.  SpecEval takes one step   *)
(* per call of test_endpoint.  client.get either returns the endpoint's    *)
(* response or raises (the except branch of lines 189-196).                *)

\* Python's None / JSON null, where a status code is expected.
None == 0

\* The endpoints list of lines 200-205, each path as its segments.
endpoints == <<<<"users">>, <<"top-countries">>, <<"team-insights">>, <<"active-users-per-day">>>>

\* f"http://127.0.0.1:8000{endpoint}", split at "/".
Url(endpoint) == <<"http:", "", "127.0.0.1:8000">> \o endpoint

\* "/" + url.split("/")[-1]
ResultKey(url) == <<"/", url[Len(url)]>>

\* The response the application gives to GET url on cache c.
Route(url, c) ==
    LET name == url[Len(url)]
    IN  IF name = "users" THEN get_users(c)
        ELSE IF name = "top-countries" THEN get_top_countries(c)
        ELSE IF name = "team-insights" THEN get_team_insights(c)
        ELSE get_active_users_per_day(c, NoMin)

\* test_endpoint(url): raised says whether client.get(url) raised.
test_endpoint(url, c, raised) ==
    IF raised
    THEN [status_code |-> None, status_ok |-> FALSE, time_ms |-> None,
          valid_response |-> FALSE, error |-> "str(e)"]
    ELSE [status_code |-> Route(url, c).status,
          status_ok |-> (Route(url, c).status = HTTP_OK),
          valid_response |-> TRUE]

\* A loop that keeps the first status that is not 200.
KeepFirstCodeStatus(codeStatus, result) ==
    IF codeStatus = HTTP_OK /\ result.status_code # HTTP_OK THEN result.status_code ELSE codeStatus

\* Lines 212-213.
NextCodeStatus(codeStatus, result) ==
    IF result.status_code # HTTP_OK THEN result.status_code ELSE codeStatus

\* evaluation() up to the loop (lines 200-208).
EvalStart ==
    /\ ev.pc = "idle"
    /\ ev' = [pc |-> "loop", i |-> 1, codeStatus |-> HTTP_OK, results |-> <<>>]
    /\ UNCHANGED <<cache, req, resp, lastBody, th, stored>>

\* One turn of the loop of lines 209-214.
EvalCall(raised) ==
    /\ ev.pc = "loop"
    /\ ev.i <= Len(endpoints)
    /\ LET url == Url(endpoints[ev.i])
           result == test_endpoint(url, cache, raised)
       IN  ev' = [ev EXCEPT !.i = ev.i + 1,
                            !.codeStatus = NextCodeStatus(ev.codeStatus, result),
                            !.results = Append(ev.results, <<ResultKey(url), result>>)]
    /\ UNCHANGED <<cache, req, resp, lastBody, th, stored>>

\* The JSONResponse of lines 216-226.
EvalFinish ==
    /\ ev.pc = "loop"
    /\ ev.i > Len(endpoints)
    /\ req' = [endpoint |-> "GET /evaluation"]
    /\ resp' = [endpoint |-> "GET /evaluation", status |-> HTTP_OK,
                content |-> [descricao |-> "Executa testes automaticos",
                             response |-> [status |-> ev.codeStatus,
                                           body |-> [tested_endpoints |-> ev.results]]]]
    /\ ev' = EvIdle
    /\ UNCHANGED <<cache, lastBody, th, stored>>

EvalBodies == {<<CHOOSE p \in StorePersons : p.score = SuperuserScore /\ p.ativo>>}

NextEval ==
    \/ \E body \in EvalBodies : PostUsers(body)
    \/ EvalStart
    \/ \E raised \in BOOLEAN : EvalCall(raised)
    \/ EvalFinish

SpecEval == Init /\ [][NextEval]_vars

\* The status codes of a report, in the order of the tested endpoints.
Codes(report) ==
    [k \in 1..Len(report.body.tested_endpoints) |-> report.body.tested_endpoints[k][2].status_code]

TestedInOrder(report) ==
    /\ Len(report.body.tested_endpoints) = 4
    /\ report.body.tested_endpoints[1][1] = <<"/", "users">>
    /\ report.body.tested_endpoints[2][1] = <<"/", "top-countries">>
    /\ report.body.tested_endpoints[3][1] = <<"/", "team-insights">>
    /\ report.body.tested_endpoints[4][1] = <<"/", "active-users-per-day">>

----------------------------------------------------------------------------
(* SpecConc: the handlers as worker threads.  FastAPI runs a `def` handler *)
(* in a thread of its pool, so POST /users and the queries interleave at   *)
(* the grain of the interpreter: one step per turn of a loop or            *)
(* comprehension and one per read or write of `cache`.  The list that      *)
(* line 41 builds is local until the assignment binds it, and no code      *)
(* mutates a list once it is bound, so a thread's reference to a list is   *)
(* modelled by the list's value.  The body of a POST has passed validation *)
(* when its handler is entered.  The four query handlers read the cache    *)
(* the same way (one membership test, one evaluation of cache["people"],   *)
(* one pass over that list); which of them a thread runs is recorded when  *)
(* its pass ends.                                                          *)

NumThreads == 2       \* worker threads
MaxConcLen == 2       \* records per POST body in SpecConc

Threads == 1..NumThreads

ConcPersons == {p \in StorePersons : p.ativo}

\* A body holds MaxConcLen copies of one record, so that a pass that mixes
\* two bodies, or stops short, yields a list that is no body.
ConcBodies == {[i \in 1..MaxConcLen |-> p] : p \in ConcPersons}

Idle == [pc |-> "idle"]

\* The list a query's pass draws its next element from, re-reading the
\* cache on every turn (as in `for i in range(...): cache["people"][i]`).
CurrentListReread(t) == cache["people"]

\* The list a query's pass draws its next element from: the one that
\* cache["people"] evaluated to when the loop or comprehension began.
CurrentList(t) == th[t].snap

\* The response of endpoint `kind` computed from the records a pass saw.
Answer(kind, seen) ==
    IF kind = "GET /users" THEN Report(kind, superusers(seen))
    ELSE IF kind = "GET /top-countries" THEN Report(kind, top_5_paises(seen))
    ELSE IF kind = "GET /team-insights" THEN Report(kind, insights(seen))
    ELSE Report(kind, active_users_per_day(seen, NoMin))

\* POST /users: the handler is entered with the validated body.
PostEnter(t, body) ==
    /\ th[t].pc = "idle"
    /\ th' = [th EXCEPT ![t] = [pc |-> "dump", people |-> body, built |-> <<>>]]
    /\ UNCHANGED <<cache, req, resp, lastBody, ev, stored>>

\* One turn of the comprehension of line 41.
PostDump(t) ==
    /\ th[t].pc = "dump"
    /\ Len(th[t].built) < Len(th[t].people)
    /\ th' = [th EXCEPT ![t].built = Append(@, model_dump(th[t].people[Len(@) + 1]))]
    /\ UNCHANGED <<cache, req, resp, lastBody, ev, stored>>

\* cache["people"] = <the list built>, and the return of line 42.
PostStore(t) ==
    /\ th[t].pc = "dump"
    /\ Len(th[t].built) = Len(th[t].people)
    /\ cache' = [k \in DOMAIN cache \cup {"people"} |->
                    IF k = "people" THEN th[t].built ELSE cache[k]]
    /\ stored' = stored \cup {th[t].people}
    /\ th' = [th EXCEPT ![t] = Idle]
    /\ UNCHANGED <<req, resp, lastBody, ev>>

\* A query handler is entered.
GetEnter(t) ==
    /\ th[t].pc = "idle"
    /\ th' = [th EXCEPT ![t] = [pc |-> "check"]]
    /\ UNCHANGED <<cache, req, resp, lastBody, ev, stored>>

\* if "people" not in cache: raise HTTPException(404)
GetCheck(t) ==
    /\ th[t].pc = "check"
    /\ th' = [th EXCEPT ![t] =
                 IF HasPeople(cache) THEN [pc |-> "load"]
                 ELSE [pc |-> "done", resp |-> NotFound("query")]]
    /\ UNCHANGED <<cache, req, resp, lastBody, ev, stored>>

\* cache["people"] is evaluated, once, as the iterable of the pass.
GetLoad(t) ==
    /\ th[t].pc = "load"
    /\ th' = [th EXCEPT ![t] = [pc |-> "iter", snap |-> cache["people"], i |-> 0, seen |-> <<>>]]
    /\ UNCHANGED <<cache, req, resp, lastBody, ev, stored>>

\* One turn of the pass: the next element, if the list has one.
GetIter(t) ==
    /\ th[t].pc = "iter"
    /\ th[t].i < Len(CurrentList(t))
    /\ th' = [th EXCEPT ![t].i = @ + 1,
                        ![t].seen = Append(@, CurrentList(t)[th[t].i + 1])]
    /\ UNCHANGED <<cache, req, resp, lastBody, ev, stored>>

\* The pass ends and the handler builds its response.
GetDone(t, kind) ==
    /\ th[t].pc = "iter"
    /\ th[t].i >= Len(CurrentList(t))
    /\ th' = [th EXCEPT ![t] = [pc |-> "done", seen |-> th[t].seen, resp |-> Answer(kind, th[t].seen)]]
    /\ UNCHANGED <<cache, req, resp, lastBody, ev, stored>>

\* The response is sent.
GetReturn(t) ==
    /\ th[t].pc = "done"
    /\ th' = [th EXCEPT ![t] = Idle]
    /\ UNCHANGED <<cache, req, resp, lastBody, ev, stored>>

InitConc ==
    /\ cache = EmptyCache
    /\ req = NoRequest
    /\ resp = NoResponse
    /\ lastBody = NoBody
    /\ ev = EvIdle
    /\ th = [t \in Threads |-> Idle]
    /\ stored = {}

NextConc ==
    \E t \in Threads :
        \/ \E body \in ConcBodies : PostEnter(t, body)
        \/ PostDump(t)
        \/ PostStore(t)
        \/ GetEnter(t)
        \/ GetCheck(t)
        \/ GetLoad(t)
        \/ GetIter(t)
        \/ \E kind \in QueryEndpoints : GetDone(t, kind)
        \/ GetReturn(t)

SpecConc == InitConc /\ [][NextConc]_vars

IsPrefix(s, full) == Len(s) <= Len(full) /\ s = SubSeq(full, 1, Len(s))

\* C5: under every interleaving of ingestions and queries, a query that
\* returns data has computed it over exactly one complete payload of a
\* successful ingestion: what its pass saw is, while it runs, a prefix of one
\* such payload, and when it ends the whole of it; the cache itself never
\* holds anything but such a payload.
C5_QueriesSeeOneWholeSnapshot ==
    /\ (HasPeople(cache) => cache["people"] \in stored)
    /\ \A t \in Threads :
          /\ th[t].pc = "iter" => \E whole \in stored : IsPrefix(th[t].seen, whole)
          /\ (th[t].pc = "done" /\ th[t].resp.status = 200) =>
                /\ th[t].seen \in stored
                /\ th[t].resp.endpoint \in QueryEndpoints
                /\ th[t].resp = Answer(th[t].resp.endpoint, th[t].seen)

\* C5 witness: a query ended its pass over the payload it loaded after
\* another payload had replaced that one in the cache.
C5_Witness ==
    \E t \in Threads :
        /\ th[t].pc = "done"
        /\ th[t].resp.status = 200
        /\ th[t].resp.endpoint = "GET /team-insights"
        /\ Len(th[t].seen) = MaxConcLen
        /\ cache["people"] # th[t].seen
        /\ Cardinality(stored) = 2

====
